---- MODULE Spec2Model ----
(***************************************************************************)
(* A state-machine model of gpam_training.MultilabelTraining               *)
(* (src/gpam_training/multilabel_training.py): one Trainer object, its     *)
(* attributes, and its methods train, incremental_train,                   *)
(* incremental_train_with_parquet, predict and set_X_test.  The two        *)
(* incremental loops are stepped one chunk read / one chunk fit at a time, *)
(* and at each step the collaborator that is called may raise.             *)
(*                                                                         *)
(* A data source is a sequence of lines; line 0 is the header, lines 1..N  *)
(* are the data rows.  A row is [line, tema]: its text is identified by    *)
(* its line number and tema is its raw label identifier.                   *)
(***************************************************************************)
EXTENDS Integers, Sequences, FiniteSets, TLC

\* ---------------------------------------------------------------- bounds
MaxRows == 2
MaxNrows == 2
MaxCalls == 2

\* ------------------------------------------------------ program constants
OTHER_THEMES_VALUE == 4242

DEFAULT_TARGET_THEMES ==
  <<0, 5, 6, 26, 33, 139, 163, 232, 313, 339, 350, 406, 409, 555, 589, 597,
    634, 660, 695, 729, 766, 773, 793, 800, 810, 852, 895, 951, 975>>

\* HashingVectorizer(n_features=2 ** 14)
N_FEATURES == 2 ^ 14

\* The target_themes and other_themes_value the modelled Trainer is
\* constructed with: the head of the default list, and the default catch-all.
target_themes == SubSeq(DEFAULT_TARGET_THEMES, 1, 2)

other_themes_value == OTHER_THEMES_VALUE

\* The raw label identifiers the modelled sources draw from: one target
\* theme and one theme outside the target list.
RawThemes == {target_themes[2], 7}

\* ---------------------------------------------------------------- helpers
Min(a, b) == IF a < b THEN a ELSE b

Range(s) == {s[i] : i \in DOMAIN s}

\* The header line of a CSV source.
HeaderRow == [line |-> 0, tema |-> 0 - 1]

\* The data rows of a source file (everything after the header line).
DataRows(f) == Tail(f)

\* All source files with a header and at most MaxRows data rows.
Files ==
  UNION {{<<HeaderRow>> \o [i \in 1..n |-> [line |-> i, tema |-> t[i]]] :
            t \in [1..n -> RawThemes]} : n \in 0..MaxRows}


\* ------------------------------------------------- collaborators (library)

\* pd.read_csv(df_path, nrows=n, skiprows=skip, header=None, names=...):
\* the first `skip` lines of the file are dropped and at most n of the lines
\* that follow are returned as data; past the end of the file the frame is
\* empty.
ReadCsv(f, n, skip) == SubSeq(f, skip + 1, Min(skip + n, Len(f)))

\* ParquetFile(parquet_path).iter_row_groups(): the data rows in consecutive
\* row groups of the size the file was written with.
RowGroups(f, size) ==
  LET rows == DataRows(f)
      ngroups == (Len(rows) + size - 1) \div size
  IN  [g \in 1..ngroups |->
         SubSeq(rows, (g - 1) * size + 1, Min(g * size, Len(rows)))]

\* self.target_themes + [self.other_themes_value]
LabelColumns == Append(target_themes, other_themes_value)

\* Catch-all bucketing of the Preprocessor: a raw label outside the target
\* list is absorbed by the catch-all label.
Bucket(tema) ==
  IF tema \in Range(target_themes) THEN tema ELSE other_themes_value

\* DataframePreprocessing().get_unique_binarized_labels(path, "tema"[, True]):
\* one scan of the label column of the whole source, giving the label
\* vocabulary that occurs in it and how often each label occurs.
GetUniqueBinarizedLabels(f) ==
  LET rows == DataRows(f)
      b(i) == Bucket(rows[i].tema)
      classes == {b(i) : i \in DOMAIN rows}
  IN  [classes |-> classes,
       labels_freq |->
         [c \in classes |-> Cardinality({i \in DOMAIN rows : b(i) = c})]]

\* The order in which the Preprocessor lays out the binary label columns of
\* a frame: the labels present in the frame first, then the rest of the
\* vocabulary.  The column SET is always the whole vocabulary; the order
\* depends on the frame.
DpColumns(rows) ==
  LET present == {Bucket(rows[i].tema) : i \in DOMAIN rows}
      isPresent(c) == c \in present
      isAbsent(c) == c \notin present
  IN  SelectSeq(LabelColumns, isPresent) \o SelectSeq(LabelColumns, isAbsent)

\* DataframePreprocessing(df.copy(), ...).processed_df: every row keeps its
\* text and gets one binary column per vocabulary entry (held here as the
\* label whose column is hot), laid out in the order `columns`.
DataframePreprocessing(rows, labels_freq) ==
  [rows |-> [i \in DOMAIN rows |->
               [text |-> rows[i].line, hot |-> Bucket(rows[i].tema)]],
   columns |-> DpColumns(rows),
   labels_freq |-> labels_freq]

\* pd.DataFrame(): the empty frame, with no columns at all.
EmptyFrame == [rows |-> <<>>, columns |-> <<>>, labels_freq |-> <<>>]

\* frame[x_column_name]: the text column.
TextColumn(frame) == [i \in DOMAIN frame.rows |-> frame.rows[i].text]

\* frame[list_of_columns]: the named label columns, in the order of the
\* list.
SelectColumns(frame, cols) ==
  [columns |-> cols, rows |-> [i \in DOMAIN frame.rows |-> frame.rows[i].hot]]

\* Feature hashing of one text into the fixed feature space.
Hash(text) == (text * 31 + 7) % N_FEATURES

\* self.vectorizer.fit_transform(X): stateless, one hashed vector per text.
_vectorize(X) ==
  [n_features |-> N_FEATURES, dense |-> FALSE,
   rows |-> [i \in DOMAIN X |-> Hash(X[i])]]

\* vector.toarray()
ToArray(vector) == [vector EXCEPT !.dense = TRUE]

\* The number of columns of a matrix handed to the classifier.
Width(m) ==
  IF "n_features" \in DOMAIN m THEN m.n_features ELSE Len(m.columns)

\* The multi-output classifier's state is the training it has absorbed.
\* fit starts from fresh estimators; partial_fit adds to the existing ones.
Fit(X, y) == <<[op |-> "fit", X |-> X, y |-> y, classes |-> {}]>>

PartialFit(model, X, y, classes) ==
  Append(model, [op |-> "partial_fit", X |-> X, y |-> y, classes |-> classes])

IsFitted(model) == model # <<>>

\* mo_classifier.predict(M) raises on an unfitted model and when M does not
\* have the width the estimators were fitted with.
PredictError(model, M) ==
  IF ~IsFitted(model) THEN "NotFittedError"
  ELSE IF Len(M.rows) = 0 THEN "ValueError"
  ELSE IF Width(M) # Width(model[1].X) THEN "ValueError"
  ELSE "none"

PredictValue(M) == [kind |-> "predictions", of |-> M]


\* train_test_split(X, y, stratify=y, test_size=0.2, random_state=42)
TEST_SIZE_PERCENT == 20

NTest(n) == (n * TEST_SIZE_PERCENT + 99) \div 100

\* The label combinations of a label matrix and how many rows carry each.
Combinations(y) == Range(y.rows)

CombinationCount(y, c) == Cardinality({i \in DOMAIN y.rows : y.rows[i] = c})

\* Faulty variant: the split made without stratify=y, which only refuses to
\* leave the training side empty.
SplitErrorUnstratified(y) ==
  IF Len(y.rows) - NTest(Len(y.rows)) = 0 THEN "empty_train" ELSE "none"

\* Why the stratified split of a label matrix fails, "none" when it does
\* not: an empty training side, a label combination with fewer than two
\* rows, or a side smaller than the number of combinations.
SplitError(y) ==
  LET n == Len(y.rows)
      n_test == NTest(n)
      n_train == n - n_test
      n_classes == Cardinality(Combinations(y))
  IN  IF n_train = 0 THEN "empty_train"
      ELSE IF \E c \in Combinations(y) : CombinationCount(y, c) < 2
        THEN "least_populated_class"
      ELSE IF n_train < n_classes \/ n_test < n_classes
        THEN "fewer_rows_than_classes"
      ELSE "none"

\* The held-out sides a split of n rows may produce.
TestSets(n) == {t \in SUBSET (1..n) : Cardinality(t) = NTest(n)}

\* The rows of a sequence at the positions in `keep`, in order.
Pick(s, keep) ==
  LET kept(i) == Cardinality({j \in keep : j <= i})
      pos(k) == CHOOSE i \in keep : kept(i) = k
  IN  [k \in 1..Cardinality(keep) |-> s[pos(k)]]

PickRows(y, keep) == [y EXCEPT !.rows = Pick(y.rows, keep)]

\* get_multilabel_metrics(y_true, y_pred)
get_multilabel_metrics(y_true, y_pred) ==
  [kind |-> "metrics", y_true |-> y_true, y_pred |-> y_pred]

None == [kind |-> "None"]

NoMatrix == [columns |-> <<>>, rows |-> <<>>]

\* ------------------------------------------------------------------ state
VARIABLES
  file,           \* the data source on disk (CSV lines / parquet rows)
  attrs,          \* the optional attributes the Trainer object has so far
  df,             \* self.df
  y_columns_names,\* self.y_columns_names
  X_train,        \* self.X_train
  y_train,        \* self.y_train
  X_test,         \* self.X_test
  y_test,         \* self.y_test
  mo_classifier,  \* self.mo_classifier (the training it has absorbed)
  pc,             \* where the running method is
  nrows,          \* local nrows (chunk size / parquet running row count)
  skiprows,       \* local skiprows of incremental_train
  classes,        \* local classes
  labels_freq,    \* local labels_freq
  chunk,          \* local df: the chunk just read
  reads,          \* chunks fetched so far in this run (the iterator position)
  printed,        \* the last 'rows already trained' count printed
  fitLog,         \* the partial_fit calls of this run, with the rows fed
  vocabScans,     \* label-vocabulary scans made in this run
  modelAtStart,   \* mo_classifier when the running method was entered
  raisedAt,       \* the chunk at which a collaborator raised in this run, or 0
  predictedOn,    \* the matrix last handed to mo_classifier.predict
  rowGroupSize,   \* the row-group size of the parquet source being read
  calls,          \* the methods called on the Trainer so far
  ncalls,         \* how many calls that is
  lastCall,       \* the method called last
  lastResult      \* how it ended

vars ==
  <<file, attrs, df, y_columns_names, X_train, y_train, X_test,
    y_test, mo_classifier, pc, nrows, skiprows, classes, labels_freq, chunk,
    reads, printed, fitLog, vocabScans, modelAtStart, raisedAt,
    predictedOn, rowGroupSize, calls, ncalls, lastCall, lastResult>>

trainerState ==
  <<attrs, df, y_columns_names, X_train, y_train, X_test, y_test,
    mo_classifier>>

splitState == <<X_train, y_train, X_test, y_test>>

locals ==
  <<nrows, skiprows, classes, labels_freq, chunk, reads, rowGroupSize>>

runHistory == <<printed, fitLog, vocabScans, modelAtStart, raisedAt>>

NoCall == [status |-> "none", exc |-> "", origin |-> "", chunk |-> 0,
           value |-> None]

Running == [NoCall EXCEPT !.status = "running"]

Returned(v) == [NoCall EXCEPT !.status = "returned", !.value = v]

Raised(exc, origin, k) ==
  [NoCall EXCEPT !.status = "raised", !.exc = exc, !.origin = origin,
                 !.chunk = k]

\* ----------------------------------------------------------- construction
\* __init__ / _initialize_dataframe: a non-empty initial dataset is
\* preprocessed at once and its label columns become y_columns_names.
_initialize_dataframe(rows) ==
  IF rows # <<>>
    THEN /\ df = DataframePreprocessing(rows, <<>>)
         /\ y_columns_names = df.columns
         /\ attrs = {"y_columns_names"}
    ELSE /\ df = EmptyFrame
         /\ y_columns_names = <<>>
         /\ attrs = {}

Init ==
  /\ file \in Files
  /\ \E rows \in {<<>>, DataRows(file)} : _initialize_dataframe(rows)
  /\ X_train = <<>> /\ y_train = NoMatrix
  /\ X_test = <<>> /\ y_test = NoMatrix
  /\ mo_classifier = <<>>
  /\ pc = "idle"
  /\ nrows = 0 /\ skiprows = 0 /\ classes = {} /\ labels_freq = <<>>
  /\ chunk = <<>> /\ reads = 0 /\ rowGroupSize = 0
  /\ printed = 0 /\ fitLog = <<>> /\ vocabScans = 0 /\ modelAtStart = <<>>
  /\ raisedAt = 0
  /\ predictedOn = NoMatrix
  /\ calls = {} /\ ncalls = 0
  /\ lastCall = "__init__"
  /\ lastResult = NoCall


\* ------------------------------------------------------------ method entry
\* A method is entered only on an idle Trainer: the object is used by one
\* caller at a time.  Locals of an earlier call are gone by then.
Enter(name) ==
  /\ pc = "idle"
  /\ ncalls < MaxCalls
  /\ ncalls' = ncalls + 1
  /\ calls' = calls \cup {name}
  /\ lastCall' = name
  /\ modelAtStart' = mo_classifier
  /\ raisedAt' = 0

\* The locals and the run record of a method that has no loop.
NoRun ==
  /\ nrows' = 0 /\ skiprows' = 0 /\ classes' = {} /\ labels_freq' = <<>>
  /\ chunk' = <<>> /\ reads' = 0 /\ rowGroupSize' = 0
  /\ printed' = 0 /\ fitLog' = <<>> /\ vocabScans' = 0

\* ------------------------------------------------- incremental_train (CSV)
\* Faulty variant: the frequency table is not passed on, so the
\* Preprocessor sees the default empty table.
_update_dataframe_default(rows, labels_freq_arg) ==
  DataframePreprocessing(rows, <<>>)

\* _update_dataframe(df, is_incremental_training, is_parquet, labels_freq):
\* the chunk is preprocessed with the Trainer's label configuration and the
\* frequency table it is handed, and the result becomes self.df.
_update_dataframe(rows, labels_freq_arg) ==
  DataframePreprocessing(rows, labels_freq_arg)

\* Faulty variant: the class set is taken from the labels of the chunk.
FitArgsChunkClasses(frame, vocabulary) ==
  [X |-> _vectorize(TextColumn(frame)),
   y |-> SelectColumns(frame, LabelColumns),
   classes |-> {frame.rows[i].hot : i \in DOMAIN frame.rows}]

\* Faulty variant: the label columns are taken as the processed chunk lays
\* them out.
FitArgsFrameColumns(frame, vocabulary) ==
  [X |-> _vectorize(TextColumn(frame)),
   y |-> SelectColumns(frame, frame.columns),
   classes |-> vocabulary]

\* What one loop iteration of incremental_train hands to partial_fit: the
\* vectorized text, the label columns target_themes + [other_themes_value]
\* of the processed chunk, and the vocabulary read up front.
FitArgs(frame, vocabulary) ==
  [X |-> _vectorize(TextColumn(frame)),
   y |-> SelectColumns(frame, LabelColumns),
   classes |-> vocabulary]

\* The same for incremental_train_with_parquet, which densifies the vector.
ParquetFitArgs(frame, vocabulary) ==
  [X |-> ToArray(_vectorize(TextColumn(frame))),
   y |-> SelectColumns(frame, LabelColumns),
   classes |-> vocabulary]

\* if df.empty: break
ChunkIsEmpty(d) == Len(d) = 0

\* Faulty variant: the offset advances one row short of the chunk.
NextSkiprowsOverlap(skip, n) == skip + n - 1

\* Faulty variant: the offset is never advanced.
NextSkiprowsStuck(skip, n) == skip

\* skiprows += nrows
NextSkiprows(skip, n) == skip + n

\* print('{} rows already trained'.format(skiprows - 1))
CsvProgress(skip) == skip - 1

\* nrows += len(df); print('{} rows already trained'.format(nrows))
ParquetProgress(count, d) == count + Len(d)

\* Faulty variant: the loop body is wrapped in a try/except that swallows
\* the exception and goes on with the loop.
PropagateSwallowed(exc, origin, k) ==
  /\ pc' = IF pc \in {"csv_read", "csv_fit"} THEN "csv_read" ELSE "pq_next"
  /\ lastResult' = lastResult

\* The loops hold no try/except: an exception raised while chunk k is
\* handled leaves the method at once and reaches the caller.
Propagate(exc, origin, k) ==
  /\ pc' = "idle"
  /\ lastResult' = Raised(exc, origin, k)

\* The stages of one loop iteration after the read at which a collaborator
\* may raise.
FitStages == {"preprocess", "vectorize", "partial_fit"}

IncrementalTrain(n) ==
  /\ Enter("incremental_train")
  /\ nrows' = n
  /\ skiprows' = 1
  /\ classes' = GetUniqueBinarizedLabels(file).classes
  /\ vocabScans' = 1
  /\ labels_freq' = <<>>
  /\ rowGroupSize' = 0
  /\ reads' = 0
  /\ chunk' = <<>>
  /\ fitLog' = <<>>
  /\ printed' = 0
  /\ predictedOn' = NoMatrix
  /\ pc' = "csv_read"
  /\ lastResult' = Running
  /\ UNCHANGED <<file, trainerState>>

\* df = pd.read_csv(...); if df.empty: break.  The read either raises or
\* returns the next window of the file.
CsvRead ==
  /\ pc = "csv_read"
  /\ reads' = reads + 1
  /\ \/ /\ raisedAt' = reads + 1
        /\ Propagate("IOError", "read", reads + 1)
        /\ UNCHANGED chunk
     \/ LET d == ReadCsv(file, nrows, skiprows)
        IN  /\ chunk' = d
            /\ UNCHANGED raisedAt
            /\ IF ChunkIsEmpty(d)
                 THEN /\ pc' = "idle"
                      /\ lastResult' = Returned(None)
                 ELSE /\ pc' = "csv_fit"
                      /\ UNCHANGED lastResult
  /\ UNCHANGED <<file, trainerState, nrows, skiprows, classes, labels_freq,
                 rowGroupSize, printed, fitLog, vocabScans,
                 modelAtStart, predictedOn, calls, ncalls, lastCall>>

\* self._update_dataframe(df) ... print(...): the rest of one iteration.
\* Either one of its stages raises, or the chunk is fitted and the offset
\* advances.  A source of at most MaxRows rows never takes more than MaxRows
\* fits, so the guard on fitLog only stops a loop that has ceased to advance.
CsvFit ==
  /\ pc = "csv_fit"
  /\ Len(fitLog) <= MaxRows
  /\ LET frame == _update_dataframe(chunk, <<>>)
           args == FitArgs(frame, classes)
       IN  \/ /\ \E stage \in FitStages :
                   /\ Propagate("Error", stage, reads)
                   /\ df' = IF stage = "preprocess" THEN df ELSE frame
              /\ raisedAt' = reads
              /\ UNCHANGED <<mo_classifier, skiprows, printed, fitLog,
                             vocabScans, modelAtStart>>
           \/ /\ df' = frame
              /\ mo_classifier' =
                   PartialFit(mo_classifier, args.X, args.y, args.classes)
              /\ fitLog' = Append(fitLog, [rows |-> chunk, args |-> args,
                                           labels_freq |-> frame.labels_freq])
              /\ skiprows' = NextSkiprows(skiprows, nrows)
              /\ printed' = CsvProgress(skiprows')
              /\ pc' = "csv_read"
              /\ UNCHANGED <<lastResult, vocabScans, modelAtStart, raisedAt>>
  /\ UNCHANGED <<file, attrs, y_columns_names, splitState, nrows, classes,
                 labels_freq, chunk, reads, rowGroupSize,
                 predictedOn, calls, ncalls, lastCall>>

\* -------------------------------------- incremental_train_with_parquet
IncrementalTrainWithParquet(size) ==
  /\ Enter("incremental_train_with_parquet")
  /\ nrows' = 0
  /\ rowGroupSize' = size
  /\ LET vocabulary == GetUniqueBinarizedLabels(file)
     IN  /\ classes' = vocabulary.classes
         /\ labels_freq' = vocabulary.labels_freq
  /\ vocabScans' = 1
  /\ skiprows' = 0
  /\ reads' = 0
  /\ chunk' = <<>>
  /\ fitLog' = <<>>
  /\ printed' = 0
  /\ predictedOn' = NoMatrix
  /\ pc' = "pq_next"
  /\ lastResult' = Running
  /\ UNCHANGED <<file, trainerState>>

\* for df in pf.iter_row_groups(): the next row group, or the end of the loop.
ParquetNext ==
  /\ pc = "pq_next"
  /\ reads' = reads + 1
  /\ LET groups == RowGroups(file, rowGroupSize)
     IN  \/ /\ raisedAt' = reads + 1
            /\ Propagate("IOError", "read", reads + 1)
            /\ UNCHANGED chunk
         \/ /\ UNCHANGED raisedAt
            /\ IF reads + 1 > Len(groups)
                 THEN /\ pc' = "idle"
                      /\ lastResult' = Returned(None)
                      /\ UNCHANGED chunk
                 ELSE /\ chunk' = groups[reads + 1]
                      /\ pc' = "pq_fit"
                      /\ UNCHANGED lastResult
  /\ UNCHANGED <<file, trainerState, nrows, skiprows, classes, labels_freq,
                 rowGroupSize, printed, fitLog, vocabScans,
                 modelAtStart, predictedOn, calls, ncalls, lastCall>>

\* df.reset_index() ... clear_output(wait=True): the body of one iteration.
ParquetFit ==
  /\ pc = "pq_fit"
  /\ LET frame == _update_dataframe(chunk, labels_freq)
         args == ParquetFitArgs(frame, classes)
     IN  \/ /\ \E stage \in FitStages :
                 /\ Propagate("Error", stage, reads)
                 /\ df' = IF stage = "preprocess" THEN df ELSE frame
            /\ raisedAt' = reads
            /\ UNCHANGED <<mo_classifier, nrows, printed, fitLog, vocabScans,
                           modelAtStart>>
         \/ /\ df' = frame
            /\ mo_classifier' =
                 PartialFit(mo_classifier, args.X, args.y, args.classes)
            /\ fitLog' = Append(fitLog, [rows |-> chunk, args |-> args,
                                         labels_freq |-> frame.labels_freq])
            /\ nrows' = ParquetProgress(nrows, chunk)
            /\ printed' = nrows'
            /\ pc' = "pq_next"
            /\ UNCHANGED <<lastResult, vocabScans, modelAtStart, raisedAt>>
  /\ UNCHANGED <<file, attrs, y_columns_names, splitState, skiprows, classes,
                 labels_freq, chunk, reads, rowGroupSize,
                 predictedOn, calls, ncalls, lastCall>>

\* ------------------------------------------------------------------ train
\* self.y_pred = self.mo_classifier.predict(self.y_test): what train hands
\* to predict after a split.
TrainPredictInput(Xt, yt) == yt

\* _split: the stratified 80/20 split, on the held-out side `test`.
_split(X, y, test) ==
  LET all == 1..Len(X)
  IN  [X_train |-> Pick(X, all \ test), X_test |-> Pick(X, test),
       y_train |-> PickRows(y, all \ test), y_test |-> PickRows(y, test)]

Train(split_df) ==
  /\ Enter(IF split_df THEN "train(split_df=True)" ELSE "train(split_df=False)")
  /\ NoRun
  /\ UNCHANGED <<file, df, y_columns_names, pc>>
  /\ IF df.columns = <<>>
       THEN \* self.df[self.x_column_name] on the empty frame
            /\ lastResult' = Raised("KeyError", "train", 0)
            /\ predictedOn' = NoMatrix
            /\ UNCHANGED <<attrs, splitState, mo_classifier>>
     ELSE IF "y_columns_names" \notin attrs
       THEN /\ lastResult' = Raised("AttributeError", "train", 0)
            /\ predictedOn' = NoMatrix
            /\ UNCHANGED <<attrs, splitState, mo_classifier>>
     ELSE
       LET X == TextColumn(df)
           y == SelectColumns(df, y_columns_names)
       IN  IF ~split_df
             THEN /\ X_train' = X /\ y_train' = y
                  /\ attrs' = attrs \cup {"X_train", "y_train"}
                  /\ mo_classifier' = Fit(_vectorize(X), y)
                  /\ lastResult' = Returned(None)
                  /\ predictedOn' = NoMatrix
                  /\ UNCHANGED <<X_test, y_test>>
           ELSE IF SplitError(y) # "none"
             THEN /\ X_train' = X /\ y_train' = y
                  /\ attrs' = attrs \cup {"X_train", "y_train"}
                  /\ lastResult' = Raised("ValueError", "_split", 0)
                  /\ predictedOn' = NoMatrix
                  /\ UNCHANGED <<X_test, y_test, mo_classifier>>
           ELSE \E test \in TestSets(Len(X)) :
                  LET parts == _split(X, y, test)
                      fitted == Fit(_vectorize(parts.X_train), parts.y_train)
                      input == TrainPredictInput(_vectorize(parts.X_test),
                                                 parts.y_test)
                  IN  /\ X_train' = parts.X_train /\ y_train' = parts.y_train
                      /\ X_test' = parts.X_test /\ y_test' = parts.y_test
                      /\ attrs' = attrs \cup {"X_train", "y_train", "X_test",
                                              "y_test"}
                      /\ mo_classifier' = fitted
                      /\ predictedOn' = input
                      /\ IF PredictError(fitted, input) # "none"
                           THEN lastResult' =
                                  Raised(PredictError(fitted, input),
                                         "predict", 0)
                           ELSE lastResult' =
                                  Returned(get_multilabel_metrics(
                                             parts.y_test,
                                             PredictValue(input)))

\* ---------------------------------------------------- predict, set_X_test
\* Faulty variant: a missing test slot is read as an empty one.
PredictOutcomeNoCheck(has, model, Xt) ==
  IF PredictError(model, _vectorize(Xt)) # "none"
    THEN Raised(PredictError(model, _vectorize(Xt)), "predict", 0)
  ELSE Returned(PredictValue(_vectorize(Xt)))

\* return self.mo_classifier.predict(self._vectorize(self.X_test))
PredictOutcome(has, model, Xt) ==
  IF "X_test" \notin has THEN Raised("AttributeError", "predict", 0)
  ELSE IF PredictError(model, _vectorize(Xt)) # "none"
    THEN Raised(PredictError(model, _vectorize(Xt)), "predict", 0)
  ELSE Returned(PredictValue(_vectorize(Xt)))

Predict ==
  /\ Enter("predict")
  /\ NoRun
  /\ lastResult' = PredictOutcome(attrs, mo_classifier, X_test)
  /\ predictedOn' = IF "X_test" \in attrs /\ IsFitted(mo_classifier)
                      THEN _vectorize(X_test) ELSE NoMatrix
  /\ UNCHANGED <<file, trainerState, pc>>

\* self.X_test = X
SetXTest(X) ==
  /\ Enter("set_X_test")
  /\ NoRun
  /\ X_test' = X
  /\ attrs' = attrs \cup {"X_test"}
  /\ lastResult' = Returned(None)
  /\ predictedOn' = NoMatrix
  /\ UNCHANGED <<file, df, y_columns_names, X_train, y_train, y_test,
                 mo_classifier, pc>>

\* The texts a caller may hand to set_X_test: those of the source's rows.
HeldOutTexts == {[i \in 1..Len(DataRows(file)) |-> DataRows(file)[i].line]}

\* ------------------------------------------------------------------- next
Next ==
  \/ \E n \in 1..MaxNrows : IncrementalTrain(n)
  \/ CsvRead
  \/ CsvFit
  \/ \E size \in 1..MaxNrows : IncrementalTrainWithParquet(size)
  \/ ParquetNext
  \/ ParquetFit
  \/ \E split_df \in BOOLEAN : Train(split_df)
  \/ Predict
  \/ \E X \in HeldOutTexts : SetXTest(X)

Spec == Init /\ [][Next]_vars

\* The Trainer is single-threaded and synchronous: a method that has been
\* entered keeps running until it returns or raises.
FairSpec == Spec /\ WF_vars(Next)


\* ====================================================== checked properties
N == Len(DataRows(file))

InCsvRun == lastCall = "incremental_train"

InParquetRun == lastCall = "incremental_train_with_parquet"

Vocabulary == {Bucket(DataRows(file)[i].tema) : i \in 1..N}

RECURSIVE Concat(_)
Concat(ss) == IF ss = <<>> THEN <<>> ELSE Head(ss) \o Concat(Tail(ss))

\* What was handed to partial_fit in this run, call after call.
FedX == Concat([i \in DOMAIN fitLog |-> fitLog[i].args.X.rows])

FedY == Concat([i \in DOMAIN fitLog |-> fitLog[i].args.y.rows])

\* The source's data rows as partial_fit should see them.
SourceX == [i \in 1..N |-> Hash(DataRows(file)[i].line)]

SourceY == [i \in 1..N |-> Bucket(DataRows(file)[i].tema)]

IsPrefix(s, t) == Len(s) <= Len(t) /\ s = SubSeq(t, 1, Len(s))

Ceil(a, b) == (a + b - 1) \div b

\* C1: incremental_train feeds every data row of the CSV to partial_fit
\* exactly once, in file order, in consecutive chunks of 1..nrows rows; the
\* header line is never fed; a run that returns has made exactly
\* ceil(N/nrows) partial_fit calls covering all N rows.
C1_EveryRowOnceInOrder ==
  InCsvRun =>
    /\ IsPrefix(FedX, SourceX)
    /\ IsPrefix(FedY, SourceY)
    /\ Hash(HeaderRow.line) \notin Range(FedX)
    /\ \A i \in DOMAIN fitLog :
         /\ Len(fitLog[i].args.X.rows) \in 1..nrows
         /\ Len(fitLog[i].args.y.rows) = Len(fitLog[i].args.X.rows)
         /\ i < Len(fitLog) => Len(fitLog[i].args.X.rows) = nrows
    /\ (pc = "idle" /\ lastResult.status = "returned") =>
         /\ FedX = SourceX
         /\ FedY = SourceY
         /\ Len(fitLog) = Ceil(N, nrows)

\* A completed CSV run of several chunks.
C1_Witness ==
  /\ InCsvRun /\ pc = "idle" /\ lastResult.status = "returned"
  /\ N = 2 /\ nrows = 1 /\ Len(fitLog) = 2

CsvEnded == pc = "idle"

\* The loop was left by the break on an empty chunk: the last read returned
\* no rows, every earlier read returned rows and was fitted, and the method
\* returned None.
CsvLeftOnEmptyChunk ==
  /\ lastResult = Returned(None)
  /\ chunk = <<>>
  /\ reads = Len(fitLog) + 1
  /\ \A i \in DOMAIN fitLog : fitLog[i].args.X.rows # <<>>
  /\ Len(FedX) = N

\* C2: every incremental_train run over a finite CSV ends; when no
\* collaborator raises it ends at the first read that returns no rows,
\* returning normally and without a partial_fit for the empty chunk (also
\* for N = 0 and for N a multiple of nrows).
C2_LoopTerminates ==
  /\ (InCsvRun /\ pc # "idle") ~> CsvEnded
  /\ []((InCsvRun /\ pc = "idle" /\ raisedAt = 0) => CsvLeftOnEmptyChunk)

\* A run over a source whose size is a multiple of the chunk size has ended
\* on the empty chunk that follows the last full one.
C2_Witness ==
  /\ InCsvRun /\ pc = "idle" /\ raisedAt = 0
  /\ N = 2 /\ nrows \in {1, 2} /\ lastResult = Returned(None)

\* C3: in incremental_train the vocabulary is scanned exactly once, before
\* the first chunk is read, and every partial_fit call of the run gets that
\* same full vocabulary of the source as its class set, whatever labels its
\* own chunk holds.
C3_VocabularyFixed ==
  InCsvRun =>
    /\ vocabScans = 1
    /\ classes = Vocabulary
    /\ \A i \in DOMAIN fitLog : fitLog[i].args.classes = Vocabulary
    /\ \A i \in 1..Len(fitLog) :
         mo_classifier[Len(modelAtStart) + i].classes = Vocabulary

\* A chunk that lacks a label of the vocabulary has been fitted.
C3_Witness ==
  /\ InCsvRun
  /\ \E i \in DOMAIN fitLog :
       Range(fitLog[i].args.y.rows) # fitLog[i].args.classes

\* Chunk j of the source as the CSV loop should cut it, and the partial_fit
\* it should give rise to.
ExpectedChunk(j) ==
  SubSeq(DataRows(file), (j - 1) * nrows + 1, Min(j * nrows, N))

ExpectedFit(j) ==
  [op |-> "partial_fit",
   X |-> [n_features |-> N_FEATURES, dense |-> FALSE,
          rows |-> [i \in DOMAIN ExpectedChunk(j) |->
                      Hash(ExpectedChunk(j)[i].line)]],
   y |-> [columns |-> target_themes \o <<other_themes_value>>,
          rows |-> [i \in DOMAIN ExpectedChunk(j) |->
                      Bucket(ExpectedChunk(j)[i].tema)]],
   classes |-> Vocabulary]

\* C6: when a collaborator raises while chunk k of incremental_train is
\* read, preprocessed, vectorized or fitted, the method ends at once with
\* that exception, nothing after the failing step is read or fitted, and
\* the model is the model at entry plus the partial fits of chunks 1..k-1.
C6_ExceptionAbortsRun ==
  (InCsvRun /\ raisedAt > 0) =>
    /\ pc = "idle"
    /\ lastResult.status = "raised"
    /\ lastResult.chunk = raisedAt
    /\ reads = raisedAt
    /\ Len(fitLog) = raisedAt - 1
    /\ mo_classifier =
         modelAtStart \o [j \in 1..(raisedAt - 1) |-> ExpectedFit(j)]

\* partial_fit of the second chunk raised: the first chunk stays fitted.
C6_Witness ==
  /\ InCsvRun /\ raisedAt = 2 /\ lastResult.origin = "partial_fit"
  /\ Len(mo_classifier) = Len(modelAtStart) + 1

\* C8: in an incremental run (CSV or parquet) the label matrix of every
\* partial_fit call has the columns target_themes followed by the catch-all
\* label, in that order, whatever labels the chunk holds.
C8_LabelColumnsFixed ==
  (InCsvRun \/ InParquetRun) =>
    \A i \in DOMAIN fitLog :
      /\ fitLog[i].args.y.columns = target_themes \o <<other_themes_value>>
      /\ \A j \in DOMAIN fitLog :
           fitLog[i].args.y.columns = fitLog[j].args.y.columns

\* Two chunks with disjoint label sets have been fitted.
C8_Witness ==
  /\ InCsvRun \/ InParquetRun
  /\ Len(fitLog) = 2
  /\ Range(fitLog[1].args.y.rows) \cap Range(fitLog[2].args.y.rows) = {}

\* How often each label of the vocabulary occurs in the whole source.
SourceFreq ==
  [c \in Vocabulary |->
     Cardinality({i \in 1..N : Bucket(DataRows(file)[i].tema) = c})]

\* C9: in incremental_train_with_parquet the vocabulary and the label
\* frequency table are computed once from the whole source before the first
\* row group; every row group is preprocessed with that table and fitted
\* exactly once with that vocabulary, in iterator order, and the loop ends
\* after the last row group.
C9_ParquetGlobalTables ==
  InParquetRun =>
    /\ vocabScans = 1
    /\ classes = Vocabulary
    /\ labels_freq = SourceFreq
    /\ \A i \in DOMAIN fitLog :
         /\ fitLog[i].args.classes = Vocabulary
         /\ fitLog[i].labels_freq = SourceFreq
         /\ fitLog[i].rows = RowGroups(file, rowGroupSize)[i]
    /\ IsPrefix(FedX, SourceX)
    /\ (pc = "idle" /\ lastResult.status = "returned") =>
         /\ Len(fitLog) = Len(RowGroups(file, rowGroupSize))
         /\ reads = Len(fitLog) + 1
         /\ FedX = SourceX

\* A parquet run over two row groups has completed.
C9_Witness ==
  /\ InParquetRun /\ pc = "idle" /\ lastResult.status = "returned"
  /\ Len(fitLog) = 2

\* C10: after each fitted chunk the printed 'rows already trained' count is
\* the number of source rows handed to partial_fit so far, in both
\* incremental methods.
C10_ProgressIsRowsTrained ==
  ((InCsvRun \/ InParquetRun) /\ fitLog # <<>>) => printed = Len(FedX)


InTrain(split_df) ==
  /\ pc = "idle"
  /\ lastCall = IF split_df THEN "train(split_df=True)"
                ELSE "train(split_df=False)"

\* The dataset train works on is usable: it has the text column and the
\* Trainer has its label-column list.
DatasetReady == df.columns # <<>> /\ "y_columns_names" \in attrs

\* How many rows of the held dataset carry label combination c.
RowsWith(c) == Cardinality({i \in DOMAIN df.rows : df.rows[i].hot = c})

HasSingleCombination == \E i \in DOMAIN df.rows : RowsWith(df.rows[i].hot) = 1

\* C4: train(split_df=True) fits once on the vectorized training partition,
\* predicts on the vectorized held-out text and returns the metrics of the
\* held-out labels against those predictions; train(split_df=False) fits
\* once on the whole dataset and returns None.
C4_TrainEvaluatesHeldOutText ==
  /\ (InTrain(TRUE) /\ DatasetReady /\ lastResult.origin # "_split") =>
       /\ mo_classifier = Fit(_vectorize(X_train), y_train)
       /\ predictedOn.rows = _vectorize(X_test).rows
       /\ Width(predictedOn) = N_FEATURES
       /\ lastResult.status = "returned"
       /\ lastResult.value.kind = "metrics"
  /\ (InTrain(FALSE) /\ DatasetReady) =>
       /\ mo_classifier =
            Fit(_vectorize(TextColumn(df)), SelectColumns(df, y_columns_names))
       /\ lastResult = Returned(None)

\* A call that sets the held-out test slot has been made.
Established == calls \cap {"train(split_df=True)", "set_X_test"} # {}

\* C5: predict returns only if train(split_df=True) or set_X_test was called
\* before; when neither was, predict raises AttributeError and the Trainer's
\* attributes (model, dataset, label schema, split) are as they were.
C5_PredictNeedsTestSlot ==
  [][(lastCall' = "predict" /\ ncalls' = ncalls + 1) =>
       /\ lastResult'.status = "returned" => Established
       /\ ~Established =>
            /\ lastResult' = Raised("AttributeError", "predict", 0)
            /\ UNCHANGED trainerState]_vars

\* predict was called after training that never set the test slot, and
\* raised AttributeError.
C5_Witness ==
  /\ lastCall = "predict"
  /\ calls \cap {"train(split_df=False)", "incremental_train",
                 "incremental_train_with_parquet"} # {}
  /\ ~Established
  /\ IsFitted(mo_classifier)
  /\ lastResult.exc = "AttributeError"

\* C7: train(split_df=True) on a dataset in which some label combination has
\* a single row raises ValueError from the split; the classifier is not
\* fitted, nothing is predicted and no metrics are returned.
C7_SingleExampleRaises ==
  (InTrain(TRUE) /\ DatasetReady /\ HasSingleCombination) =>
    /\ lastResult = Raised("ValueError", "_split", 0)
    /\ mo_classifier = modelAtStart
    /\ predictedOn = NoMatrix
    /\ lastResult.value.kind # "metrics"

\* The split refused a dataset of several rows, one of them alone in its
\* label combination.
C7_Witness ==
  /\ InTrain(TRUE) /\ DatasetReady /\ HasSingleCombination
  /\ Len(df.rows) = 2
  /\ lastResult.origin = "_split"

====
